---------------------------- MODULE Spec2Model ----------------------------
(***************************************************************************)
(* Nurse shift scheduling wheel (src/app.py): a Streamlit script that is   *)
(* re-executed from top to bottom on every user interaction.  What lives   *)
(* across runs is st.session_state (master_schedule, nurse_names,          *)
(* start_date); everything else is a local of the run.  One action of the  *)
(* model is one run of the script: the run triggered by the "generate"     *)
(* button, the run triggered by the "exchange" button, and the run         *)
(* triggered by any other widget (the view radio / nurse selectbox).       *)
(*                                                                         *)
(* Python lists are indexed from 0; the model keeps that convention by     *)
(* using functions over 0..n-1 for the master pattern, the grid and the    *)
(* data-frame columns.  Name lists are TLA+ sequences (1-based), python    *)
(* position i being element i+1.  Dates are proleptic Gregorian ordinals   *)
(* (date.toordinal()).                                                     *)
(***************************************************************************)
EXTENDS Integers, Sequences, FiniteSets, TLC

\* ------------------------------------------------------------------------
\* Program constants
\* ------------------------------------------------------------------------
num_weeks == 12
days_per_week == 7
horizon == num_weeks * days_per_week
NumNurses == 12
required_day_shifts == 3
required_night_shifts == 2
TotalShifts == 35
Saturday == 5
Sunday == 6

\* ------------------------------------------------------------------------
\* Bounds of the model (inputs are drawn from these)
\* ------------------------------------------------------------------------
\* ordinal of the first start date tried (2024-01-01, a Monday)
BaseDate == 738886
\* start dates BaseDate .. BaseDate + MaxStartOffset
MaxStartOffset == 6
\* the solver's answers are rotations by 0..MaxRot of the base patterns
MaxRot == 6
\* the exchange picks its two cells among CellPick(0) .. CellPick(MaxCellPick)
MaxCellPick == 3
\* the name fields are filled as NameVariant(0) .. NameVariant(MaxNameVariant)
MaxNameVariant == 3

Days == 0 .. (horizon - 1)
Nurses == 0 .. (NumNurses - 1)
Shifts == {0, 1}
StartDates == BaseDate .. (BaseDate + MaxStartOffset)

\* the cells (day index, position in the nurse selectbox) offered to exchange
CellPick(i) == <<(10 * i) % horizon, (5 * i) % NumNurses>>
CellPicks == {CellPick(i) : i \in 0 .. MaxCellPick}

\* None of python, for the list-valued and the date-valued session fields
None == << >>
NoDate == 0 - 1
NoIndex == 0 - 1
NoCell == "none"

\* ------------------------------------------------------------------------
\* Dates
\* ------------------------------------------------------------------------
\* date.weekday(): Monday is 0, Sunday is 6 (ordinal 1 is a Monday)
weekday(dt) == (dt + 6) % 7

\* variant: weeks counted from Sunday
WeekStartSunday(dt) == dt - ((weekday(dt) + 1) % 7)

\* lambda d: d - timedelta(days=d.weekday())
WeekStart(dt) == dt - weekday(dt)

\* ------------------------------------------------------------------------
\* Name input
\* ------------------------------------------------------------------------
Letter == <<"A", "B", "C", "D", "E", "F", "G", "H", "I", "J", "K", "L">>
IsSpace(c) == c = " "

RECURSIVE LStrip(_)
LStrip(s) == IF s # << >> /\ IsSpace(Head(s)) THEN LStrip(Tail(s)) ELSE s

RECURSIVE RStrip(_)
RStrip(s) ==
    IF s # << >> /\ IsSpace(s[Len(s)]) THEN RStrip(SubSeq(s, 1, Len(s) - 1)) ELSE s

\* str.strip()
Strip(s) == RStrip(LStrip(s))

\* nurse_names: the twelve text inputs, each stripped
StrippedNames(raw) == [i \in 1 .. Len(raw) |-> Strip(raw[i])]

\* valid_names = [name for name in nurse_names if name != ""]
ValidNames(names) == SelectSeq(names, LAMBDA nm : nm # << >>)

\* list.index(x): position of the first occurrence, NoIndex for ValueError
Index(list, x) ==
    IF \E i \in 1 .. Len(list) : list[i] = x
    THEN (CHOOSE i \in 1 .. Len(list) :
            list[i] = x /\ \A j \in 1 .. (i - 1) : list[j] # x) - 1
    ELSE NoIndex

\* the raw text of the twelve name fields that the model tries: all filled;
\* the first left blank; the sixth holding only spaces; the sixth holding a
\* padded copy of the first name; then one field after the other left blank
BaseNames == [i \in 1 .. NumNurses |-> <<Letter[i]>>]
NameVariant(i) ==
    CASE i = 0 -> BaseNames
      [] i = 1 -> [BaseNames EXCEPT ![1] = << >>]
      [] i = 2 -> [BaseNames EXCEPT ![6] = <<" ", " ">>]
      [] i = 3 -> [BaseNames EXCEPT ![6] = <<" ">> \o BaseNames[1] \o <<" ">>]
      [] OTHER -> [BaseNames EXCEPT ![(i % NumNurses) + 1] = << >>]
NameInputs == {NameVariant(i) : i \in 0 .. MaxNameVariant}

\* ------------------------------------------------------------------------
\* Constraint model over the master schedule variables y[d][s]
\* ------------------------------------------------------------------------
RECURSIVE SumSeq(_)
SumSeq(s) == IF s = << >> THEN 0 ELSE Head(s) + SumSeq(Tail(s))

RECURSIVE SumSet(_, _)
SumSet(f, S) ==
    IF S = {} THEN 0
    ELSE LET x == CHOOSE x \in S : TRUE IN f[x] + SumSet(f, S \ {x})

\* y[d, 0] + y[d, 1]
Worked(y, d) == y[d][0] + y[d][1]

\* (1) at most one shift per day
AtMostOneShift(y) == \A d \in Days : y[d][0] + y[d][1] <= 1

\* (2) exactly 35 shifts in 84 days
FairDistribution(y) == SumSet([d \in Days |-> Worked(y, d)], Days) = TotalShifts

\* group = [r + 7 * w for w in range(num_weeks) if r + 7 * w < horizon]
ResidueGroup(r) ==
    {r + days_per_week * w : w \in {v \in 0 .. (num_weeks - 1) : r + days_per_week * v < horizon}}

\* (3) daily staffing per residue class modulo 7
DailyStaffing(y) ==
    \A r \in 0 .. 6 :
        /\ SumSet([d \in Days |-> y[d][0]], ResidueGroup(r)) = required_day_shifts
        /\ SumSet([d \in Days |-> y[d][1]], ResidueGroup(r)) = required_night_shifts

\* variant: the nurse's rotation left out
master_index_unrotated(n, d) == d % horizon

\* def master_index(n, d)
master_index(n, d) == (d - n * days_per_week) % horizon

\* (4a) the index lists of the emitted "<= 3" constraints
ConsecutiveWindows ==
    { [i \in 1 .. 4 |-> master_index(n, d + i - 1)] :
        n \in Nurses, d \in 0 .. (horizon - 3 - 1) }
NoFourInARow(y) ==
    \A w \in ConsecutiveWindows : SumSeq([i \in 1 .. 4 |-> Worked(y, w[i])]) <= 3

\* (4b) rest after a night shift
RestPairs ==
    { <<master_index(n, d), master_index(n, d + 1)>> :
        n \in Nurses, d \in 0 .. (horizon - 1 - 1) }
RestAfterNight(y) == \A p \in RestPairs : y[p[1]][1] + y[p[2]][0] <= 1

\* variant: weekdays numbered from 1 (isoweekday) against the same 5 and 6
IsPairingAnchorIso(nurse_day) ==
    weekday(nurse_day) + 1 = Saturday /\ weekday(nurse_day + 1) + 1 = Sunday

\* nurse_day.weekday() == 5 and (nurse_day + 1 day).weekday() == 6
IsPairingAnchor(nurse_day) ==
    weekday(nurse_day) = Saturday /\ weekday(nurse_day + 1) = Sunday

\* (4c) weekend pairing, anchored on each nurse's own dates
WeekendPairs(sd) ==
    UNION { { <<master_index(n, d), master_index(n, d + 1)>> :
                d \in {e \in 0 .. (horizon - 1 - 1) :
                          IsPairingAnchor(sd + n * days_per_week + e)} } :
            n \in Nurses }
WeekendPairing(y, sd) == \A p \in WeekendPairs(sd) : Worked(y, p[1]) = Worked(y, p[2])

\* (4d) maximum consecutive off-shift periods (optional)
RestWindows ==
    { [i \in 1 .. 5 |-> master_index(n, d + i - 1)] :
        n \in Nurses, d \in 0 .. (horizon - 4 - 1) }
MaxRest(y) ==
    \A w \in RestWindows : SumSeq([i \in 1 .. 5 |-> Worked(y, w[i])]) >= 1

\* every constraint added to the CpModel
ModelHolds(y, sd, enforce_max_rest) ==
    /\ AtMostOneShift(y)
    /\ FairDistribution(y)
    /\ DailyStaffing(y)
    /\ NoFourInARow(y)
    /\ RestAfterNight(y)
    /\ WeekendPairing(y, sd)
    /\ (enforce_max_rest => MaxRest(y))

\* ------------------------------------------------------------------------
\* The solver (external): the assignments it may return are drawn from
\* rotations of three base patterns; it returns only assignments that
\* satisfy every constraint of the model it was given.
\* ------------------------------------------------------------------------
PatternP ==
   << "N", "" , "N", "N", "" , "N", "N",
      "N", "" , "N", "N", "N", "" , "" ,
      "" , "D", "D", "D", "" , "" , "" ,
      "" , "N", "" , "D", "D", "" , "" ,
      "" , "D", "D", "D", "" , "" , "" ,
      "D", "" , "" , "" , "D", "" , "" ,
      "D", "D", "" , "" , "" , "D", "D",
      "" , "" , "D", "" , "" , "" , "" ,
      "D", "" , "" , "" , "" , "D", "D",
      "" , "" , "" , "" , "D", "N", "N",
      "" , "" , "" , "" , "N", "" , "" ,
      "" , "N", "" , "" , "" , "D", "D" >>
PatternQ ==
   << "D", "N", "N", "" , "D", "N", "N",
      "" , "" , "N", "" , "N", "N", "N",
      "" , "" , "D", "D", "N", "" , "" ,
      "D", "" , "D", "N", "" , "" , "" ,
      "N", "" , "" , "D", "D", "" , "" ,
      "" , "D", "" , "" , "" , "D", "D",
      "N", "" , "D", "" , "" , "" , "" ,
      "D", "" , "" , "" , "D", "" , "" ,
      "" , "N", "" , "D", "" , "" , "" ,
      "" , "D", "" , "" , "" , "D", "D",
      "" , "" , "" , "N", "" , "" , "" ,
      "" , "D", "" , "" , "" , "D", "D" >>
PatternR ==
   << "D", "" , "D", "D", "D", "" , "" ,
      "" , "" , "N", "" , "N", "N", "N",
      "" , "" , "D", "D", "N", "" , "" ,
      "D", "" , "D", "N", "" , "N", "N",
      "N", "" , "" , "D", "D", "" , "" ,
      "" , "D", "" , "" , "" , "" , "" ,
      "N", "N", "" , "N", "" , "" , "" ,
      "D", "D", "" , "" , "D", "" , "" ,
      "" , "" , "" , "" , "" , "" , "" ,
      "" , "N", "" , "" , "" , "D", "D",
      "" , "D", "N", "" , "" , "D", "D",
      "" , "" , "" , "" , "" , "D", "D" >>

\* the 0/1 assignment that shows as pattern pat rotated by r
Assignment(pat, r) ==
    [d \in Days |->
        LET v == pat[((d + r) % horizon) + 1]
        IN  [s \in Shifts |-> IF (s = 0 /\ v = "D") \/ (s = 1 /\ v = "N") THEN 1 ELSE 0]]

Candidates ==
    { Assignment(pat, r) :
        pat \in {PatternP, PatternQ, PatternR}, r \in {q \in Days : q <= MaxRot} }

\* the triples (start date, enforce_max_rest, assignment) the solver may answer
Solutions ==
    UNION { UNION { UNION { IF ModelHolds(y, sd, e) THEN {<<sd, e, y>>} ELSE {} :
                              y \in Candidates } :
                    e \in BOOLEAN } :
            sd \in StartDates }
SolutionsFor(sd, e) == {t[3] : t \in {u \in Solutions : u[1] = sd /\ u[2] = e}}

\* status = solver.Solve(model), with the values solver.Value reads
CpSolve(sd, e) ==
    {<<st, y>> : st \in {"OPTIMAL", "FEASIBLE"}, y \in SolutionsFor(sd, e)}
      \cup {<<"UNKNOWN", None>>}
      \cup (IF SolutionsFor(sd, e) = {} THEN {<<"INFEASIBLE", None>>} ELSE {})

\* master_pattern built from solver.Value(y[d, 0]) and solver.Value(y[d, 1])
MasterPattern(y) ==
    [d \in Days |-> IF y[d][0] = 1 THEN "D" ELSE IF y[d][1] = 1 THEN "N" ELSE ""]

\* ------------------------------------------------------------------------
\* Materialization
\* ------------------------------------------------------------------------
\* variant: rotation by one day per nurse instead of one week
GridIndexByDay(d, n) == (d - n) % horizon

\* idx = (d - n * days_per_week) % horizon, in the grid loop
GridIndex(d, n) == (d - n * days_per_week) % horizon

\* overall_schedule[d, n] = master_pattern[idx]
BuildGrid(master_pattern) ==
    [d \in Days |-> [n \in Nurses |-> master_pattern[GridIndex(d, n)]]]

\* variant: the second write reads the array again instead of cell_a
SwapCellsNoTemp(grid, da, na, db, nb, ca, cb) ==
    LET g1 == [grid EXCEPT ![da][na] = cb]
    IN  [g1 EXCEPT ![db][nb] = g1[da][na]]

\* overall_schedule[day_a, nurse_a] = cell_b; overall_schedule[day_b, nurse_b] = cell_a
SwapCells(grid, da, na, db, nb, ca, cb) ==
    LET g1 == [grid EXCEPT ![da][na] = cb]
    IN  [g1 EXCEPT ![db][nb] = ca]

\* idx = (d - nurse_index * days_per_week) % horizon, in the personal view
PersonalIndex(d, nurse_index) == (d - nurse_index * days_per_week) % horizon

\* df_nurse with its Date, Shift, Week Start and Weekday columns
NurseFrame(master_pattern, nurse_index, sd) ==
    LET nurse_start == sd + nurse_index * days_per_week
    IN  [d \in Days |->
            [Date |-> nurse_start + d,
             Shift |-> master_pattern[PersonalIndex(d, nurse_index)],
             WeekStart |-> WeekStart(nurse_start + d),
             Weekday |-> weekday(nurse_start + d)]]

\* ascending order of a set of integers
Sorted(S) ==
    [i \in 1 .. Cardinality(S) |->
        CHOOSE x \in S : Cardinality({z \in S : z < x}) = i - 1]

\* the index of df.pivot: the distinct Week Start values in ascending order
PivotIndex(df) == Sorted({df[d].WeekStart : d \in Days})

\* the cell of the pivot at (week start ws, weekday c); NaN with no row of df
PivotCell(rows, ws, c) ==
    IF \E sh \in {"D", "N", ""} : <<ws, c, sh>> \in rows
    THEN CHOOSE sh \in {"D", "N", ""} : <<ws, c, sh>> \in rows
    ELSE "NaN"

PivotRows(idx, rows) ==
    [i \in 1 .. Len(idx) |-> [c \in 0 .. 6 |-> PivotCell(rows, idx[i], c)]]

\* df.pivot(index="Week Start", columns="Weekday", values="Shift"), columns
\* reindexed Monday..Sunday (0..6), row i labelled "Week i"
Pivot(df) ==
    PivotRows(PivotIndex(df),
              {<<df[d].WeekStart, df[d].Weekday, df[d].Shift>> : d \in Days})

\* ------------------------------------------------------------------------
\* Tables of the materializations, one row per master pattern the solver can
\* return: each run of the script recomputes the same arrays from the same
\* session fields, the tables hold them once.
\* ------------------------------------------------------------------------
MasterPatterns == {MasterPattern(y) : y \in Candidates}

GridTable == {<<m, BuildGrid(m)>> : m \in MasterPatterns}

\* the overall_schedule array built at the start of the exchange section
FreshGrid(master_pattern) == (CHOOSE t \in GridTable : t[1] = master_pattern)[2]

PersonalTable ==
    { <<m, k, sd, NurseFrame(m, k, sd), PivotIndex(NurseFrame(m, k, sd)),
        Pivot(NurseFrame(m, k, sd))>> :
        m \in MasterPatterns, k \in Nurses, sd \in StartDates }

\* df_nurse, pivot.index and pivot of the personal view of nurse nurse_index
PersonalView(master_pattern, nurse_index, sd) ==
    CHOOSE t \in PersonalTable :
        t[2] = nurse_index /\ t[3] = sd /\ t[1] = master_pattern

\* ------------------------------------------------------------------------
\* State
\* ------------------------------------------------------------------------
VARIABLES
    master_schedule,   \* st.session_state.master_schedule (None or 84 labels)
    nurse_names,       \* st.session_state.nurse_names (None or the valid names)
    start_date,        \* st.session_state.start_date (NoDate or an ordinal)
    op,                \* what triggered the last run of the script
    message,           \* the st.error / st.success of the triggered handler
    status,            \* the solver status of the last run ("none": not solved)
    valid_names,       \* generate run: the handler's list of non-empty names
    overall_schedule,  \* the run's overall_schedule array as the run left it
    day_a_index,       \* exchange run: the handler's locals
    nurse_a_index,
    day_b_index,
    nurse_b_index,
    cell_a,
    cell_b,
    repeat_exchange,   \* history: this exchange run repeats the coordinates of
                       \* the successful exchange run just before it
    view_option,       \* what the display section rendered
    df_nurse,          \* personal view: the data frame
    pivot_index,       \* personal view: pivot.index before the "Week i" labels
    pivot              \* personal view: the pivot shown

session == <<master_schedule, nurse_names, start_date>>
gen_locals == <<valid_names, status>>
ex_locals ==
    <<day_a_index, nurse_a_index, day_b_index, nurse_b_index, cell_a, cell_b,
      repeat_exchange>>
view_locals == <<view_option, df_nurse, pivot_index, pivot>>
vars == <<session, op, message, gen_locals, overall_schedule, ex_locals, view_locals>>

\* if "master_schedule" not in st.session_state: ... = None (three times)
Init ==
    /\ master_schedule = None
    /\ nurse_names = None
    /\ start_date = NoDate
    /\ op = "init"
    /\ message = ""
    /\ status = "none"
    /\ valid_names = None
    /\ overall_schedule = None
    /\ day_a_index = NoIndex
    /\ nurse_a_index = NoIndex
    /\ day_b_index = NoIndex
    /\ nurse_b_index = NoIndex
    /\ cell_a = NoCell
    /\ cell_b = NoCell
    /\ repeat_exchange = FALSE
    /\ view_option = "none"
    /\ df_nurse = None
    /\ pivot_index = None
    /\ pivot = None

NoGenerateLocals ==
    /\ valid_names' = None
    /\ status' = "none"

NoExchangeLocals ==
    /\ day_a_index' = NoIndex
    /\ nurse_a_index' = NoIndex
    /\ day_b_index' = NoIndex
    /\ nurse_b_index' = NoIndex
    /\ cell_a' = NoCell
    /\ cell_b' = NoCell
    /\ repeat_exchange' = FALSE

\* the display section with the radio on its first option, the overall grid
ShowOverall ==
    /\ view_option' = IF master_schedule' = None THEN "none" ELSE "overall"
    /\ df_nurse' = None
    /\ pivot_index' = None
    /\ pivot' = None

\* ------------------------------------------------------------------------
\* The run triggered by the "generate" button
\* ------------------------------------------------------------------------
\* len(valid_names) != 12 is the error branch
NamesOk(valid) == Len(valid) = NumNurses

\* status in [cp_model.OPTIMAL, cp_model.FEASIBLE]
StatusOk(st) == st \in {"OPTIMAL", "FEASIBLE"}

\* variant: the start date stored before the status is looked at
SessionAfterGenerateDateFirst(sess, st, y, valid, sd) ==
    IF st \in {"OPTIMAL", "FEASIBLE"}
    THEN <<MasterPattern(y), valid, sd>>
    ELSE <<sess[1], sess[2], sd>>

\* what the handler leaves in the three session fields
SessionAfterGenerate(sess, st, y, valid, sd) ==
    IF StatusOk(st)
    THEN <<MasterPattern(y), valid, sd>>
    ELSE sess

\* the solver is called only with twelve valid names
GenerateOutcomes(valid, sd, enforce) ==
    IF NamesOk(valid) THEN CpSolve(sd, enforce) ELSE {<<"none", None>>}

\* the session fields and the arrays of the run, given what the handler left
GenerateRun(valid, ok, st, after) ==
    /\ op' = "generate"
    /\ valid_names' = valid
    /\ status' = st
    /\ message' = IF ~ok THEN "error_12"
                  ELSE IF StatusOk(st) THEN "schedule_generated"
                  ELSE "no_schedule"
    /\ master_schedule' = after[1]
    /\ nurse_names' = after[2]
    /\ start_date' = after[3]
    /\ overall_schedule' =
          IF master_schedule' = None THEN None ELSE FreshGrid(master_schedule')
    /\ NoExchangeLocals
    /\ ShowOverall

GenerateWith(valid, sd, enforce, res) ==
    /\ res \in GenerateOutcomes(valid, sd, enforce)
    /\ GenerateRun(valid, NamesOk(valid), res[1],
                   IF NamesOk(valid)
                   THEN SessionAfterGenerate(session, res[1], res[2], valid, sd)
                   ELSE session)

Generate(raw, sd, enforce, res) ==
    GenerateWith(ValidNames(StrippedNames(raw)), sd, enforce, res)

\* ------------------------------------------------------------------------
\* The run triggered by the "exchange" button
\* ------------------------------------------------------------------------
\* variant: the guard written with "or"
EitherOff(ca, cb) == ca = "" \/ cb = ""

\* cell_a == "" and cell_b == ""
BothOff(ca, cb) == ca = "" /\ cb = ""

Exchange(da, pos_a, db, pos_b) ==
    /\ master_schedule # None
    /\ LET grid == FreshGrid(master_schedule)
           na == Index(nurse_names, nurse_names[pos_a + 1])
           nb == Index(nurse_names, nurse_names[pos_b + 1])
           found == na # NoIndex /\ nb # NoIndex
           ca == IF found THEN grid[da][na] ELSE NoCell
           cb == IF found THEN grid[db][nb] ELSE NoCell
       IN  /\ op' = "exchange"
           /\ day_a_index' = da
           /\ day_b_index' = db
           /\ nurse_a_index' = na
           /\ nurse_b_index' = nb
           /\ cell_a' = ca
           /\ cell_b' = cb
           /\ repeat_exchange' =
                 (/\ op = "exchange" /\ message = "exchange_success"
                  /\ day_a_index = da /\ nurse_a_index = na
                  /\ day_b_index = db /\ nurse_b_index = nb)
           /\ message' = IF ~found THEN "name_not_found"
                         ELSE IF BothOff(ca, cb) THEN "both_off"
                         ELSE "exchange_success"
           /\ overall_schedule' =
                 IF found /\ ~BothOff(ca, cb)
                 THEN SwapCells(grid, da, na, db, nb, ca, cb)
                 ELSE grid
    /\ UNCHANGED session
    /\ NoGenerateLocals
    /\ ShowOverall

\* ------------------------------------------------------------------------
\* The run triggered by the view radio or the nurse selectbox
\* ------------------------------------------------------------------------
ViewOverall ==
    /\ master_schedule # None
    /\ op' = "view"
    /\ message' = ""
    /\ overall_schedule' = FreshGrid(master_schedule)
    /\ UNCHANGED session
    /\ NoGenerateLocals
    /\ NoExchangeLocals
    /\ ShowOverall

ViewPersonal(pos) ==
    /\ master_schedule # None
    /\ LET nurse_index == Index(nurse_names, nurse_names[pos + 1])
           shown == PersonalView(master_schedule, nurse_index, start_date)
       IN  /\ df_nurse' = shown[4]
           /\ pivot_index' = shown[5]
           /\ pivot' = shown[6]
    /\ view_option' = "personal"
    /\ op' = "view"
    /\ message' = ""
    /\ overall_schedule' = FreshGrid(master_schedule)
    /\ UNCHANGED session
    /\ NoGenerateLocals
    /\ NoExchangeLocals

Next ==
    \/ \E raw \in NameInputs, sd \in StartDates, enforce \in BOOLEAN :
          \E res \in GenerateOutcomes(ValidNames(StrippedNames(raw)), sd, enforce) :
              Generate(raw, sd, enforce, res)
    \/ \E a \in CellPicks, b \in CellPicks : Exchange(a[1], a[2], b[1], b[2])
    \/ ViewOverall
    \/ \E pos \in Nurses : ViewPersonal(pos)

Spec == Init /\ [][Next]_vars

\* ------------------------------------------------------------------------
\* Properties
\* ------------------------------------------------------------------------
IsWorked(label) == label = "D" \/ label = "N"
GridShown == overall_schedule # None
Exchanged == op = "exchange" /\ message = "exchange_success"
CountOnDay(d, label) == Cardinality({n \in Nurses : overall_schedule[d][n] = label})

\* every residue class mod 7 of the pattern holds 3 DAY and 2 NIGHT entries
ResidueClassesHold(m) ==
    \A r \in 0 .. 6 :
        /\ Cardinality({d \in Days : d % 7 = r /\ m[d] = "D"}) = 3
        /\ Cardinality({d \in Days : d % 7 = r /\ m[d] = "N"}) = 2

\* C1: for a master pattern whose residue classes mod 7 each hold exactly 3
\* DAY and 2 NIGHT entries, the grid built by rotation has exactly 3 nurses on
\* DAY and exactly 2 on NIGHT on every day index 0..83, before any exchange.
C1_DailyCoverage ==
    (GridShown /\ ~Exchanged /\ ResidueClassesHold(master_schedule)) =>
        \A d \in Days : CountOnDay(d, "D") = 3 /\ CountOnDay(d, "N") = 2

C1_Witness ==
    /\ op = "generate"
    /\ message = "schedule_generated"
    /\ GridShown
    /\ ResidueClassesHold(master_schedule)

\* C2: a generate run is all-or-nothing on the session: with fewer than 12
\* non-empty stripped names, or a solver status that is neither OPTIMAL nor
\* FEASIBLE, the three session fields stay as they were; otherwise the three
\* are replaced together (the names by the valid names, the pattern by one
\* solved for the stored start date).  In every state the three fields are
\* all unset or all set.
SessionUnset == master_schedule = None /\ nurse_names = None /\ start_date = NoDate
SessionSet == master_schedule # None /\ nurse_names # None /\ start_date # NoDate
GenerateRefused ==
    op' = "generate" /\ (Len(valid_names') < 12 \/ status' \notin {"OPTIMAL", "FEASIBLE"})
GenerateAccepted ==
    op' = "generate" /\ Len(valid_names') = 12 /\ status' \in {"OPTIMAL", "FEASIBLE"}
\* the pairs (start date, master pattern) a successful solve can store
SolvedPairs == {<<t[1], MasterPattern(t[3])>> : t \in Solutions}
SolvedTogether(m, sd) == <<sd, m>> \in SolvedPairs
C2_AllOrNothing ==
    /\ [](SessionUnset \/ SessionSet)
    /\ [][ /\ GenerateRefused => UNCHANGED session
           /\ GenerateAccepted =>
                 /\ nurse_names' = valid_names'
                 /\ start_date' \in StartDates
                 /\ SolvedTogether(master_schedule', start_date') ]_vars

C2_Witness ==
    /\ op = "generate"
    /\ message \in {"error_12", "no_schedule"}
    /\ SessionSet

\* C3: the grid is held for the session: after a successful exchange the two
\* swapped values stay in the grid for every later operation (a later
\* rendering shows them, a later exchange reads them) until the next
\* successful solve.
C3_GridHeld ==
    [][ (Exchanged /\ ~(op' = "generate" /\ message' = "schedule_generated")) =>
          /\ op' # "exchange" =>
                /\ overall_schedule'[day_a_index][nurse_a_index]
                      = overall_schedule[day_a_index][nurse_a_index]
                /\ overall_schedule'[day_b_index][nurse_b_index]
                      = overall_schedule[day_b_index][nurse_b_index]
          /\ (op' = "exchange" /\ day_a_index' = day_a_index
                                /\ nurse_a_index' = nurse_a_index) =>
                cell_a' = overall_schedule[day_a_index][nurse_a_index] ]_vars

\* C4: exchanging cells A and B (not both OFF) and then exchanging the same
\* coordinates again leaves the original values at A and at B.
SameCoordinates ==
    /\ day_a_index' = day_a_index
    /\ nurse_a_index' = nurse_a_index
    /\ day_b_index' = day_b_index
    /\ nurse_b_index' = nurse_b_index
C4_DoubleSwapRestores ==
    [][ (Exchanged /\ ~repeat_exchange /\ op' = "exchange" /\ SameCoordinates) =>
          /\ overall_schedule'[day_a_index][nurse_a_index] = cell_a
          /\ overall_schedule'[day_b_index][nurse_b_index] = cell_b ]_vars

\* the grid the exchange handler is given: the array built by this run
\* before the handler reads its two cells
GivenGrid == FreshGrid(master_schedule)
SelectedA(grid) == grid[day_a_index'][nurse_a_index']
SelectedB(grid) == grid[day_b_index'][nurse_b_index']

NoOpGuardOn(grid) ==
    /\ (SelectedA(grid) = "" /\ SelectedB(grid) = "") =>
          /\ message' = "both_off"
          /\ overall_schedule' = grid
          /\ UNCHANGED session
    /\ (IsWorked(SelectedA(grid)) \/ IsWorked(SelectedB(grid))) =>
          /\ message' = "exchange_success"
          /\ overall_schedule'[day_b_index'][nurse_b_index'] = SelectedA(grid)
          /\ (<<day_a_index', nurse_a_index'>> # <<day_b_index', nurse_b_index'>>
                => overall_schedule'[day_a_index'][nurse_a_index'] = SelectedB(grid))

\* C5: when both selected cells are OFF the exchange reports an error and
\* every cell of the grid it was given, the master pattern, the names and the
\* start date are unchanged; when at least one of the two is DAY or NIGHT the
\* exchange is performed and reports success.
C5_NoOpGuard == [][ op' = "exchange" => NoOpGuardOn(GivenGrid) ]_vars

C5_Witness == op = "exchange" /\ message = "both_off" /\ cell_a = "" /\ cell_b = ""

SwapFrameOn(grid) ==
    /\ overall_schedule'[day_a_index'][nurse_a_index'] = SelectedB(grid)
    /\ overall_schedule'[day_b_index'][nurse_b_index'] = SelectedA(grid)
    /\ \A d \in Days \ {day_a_index', day_b_index'} :
          overall_schedule'[d] = grid[d]
    /\ \A d \in {day_a_index', day_b_index'}, n \in Nurses :
          (<<d, n>> # <<day_a_index', nurse_a_index'>>
             /\ <<d, n>> # <<day_b_index', nurse_b_index'>>)
          => overall_schedule'[d][n] = grid[d][n]
    /\ UNCHANGED session

\* C6: a successful exchange of A and B puts the former value of B at A and
\* the former value of A at B, changes no other cell of the grid it was given
\* and none of the session fields, whatever the rules say of the result.
C6_SwapFrame ==
    [][ (op' = "exchange" /\ message' = "exchange_success") =>
          SwapFrameOn(GivenGrid) ]_vars

\* a successful exchange of two different labels that leaves a day without
\* its 3 DAY / 2 NIGHT coverage
C6_Witness ==
    /\ Exchanged
    /\ cell_a # cell_b
    /\ \E d \in Days : CountOnDay(d, "D") # 3 \/ CountOnDay(d, "N") # 2

\* C7: in the materialized grid, for every nurse k and every day index d in
\* 0..82 whose displayed date (start date + d) is a Saturday, cell (d, k) is
\* worked iff cell (d+1, k) is worked.
C7_WeekendPairing ==
    (GridShown /\ ~Exchanged) =>
        \A k \in Nurses, d \in 0 .. (horizon - 2) :
            weekday(start_date + d) = Saturday =>
                (IsWorked(overall_schedule[d][k]) <=> IsWorked(overall_schedule[d + 1][k]))

\* a grid for a start date that is not a Monday, with a worked weekend
C7_Witness ==
    /\ GridShown
    /\ ~Exchanged
    /\ weekday(start_date) # 0
    /\ \E k \in Nurses, d \in 0 .. (horizon - 2) :
          /\ weekday(start_date + d) = Saturday
          /\ IsWorked(overall_schedule[d][k])
          /\ IsWorked(overall_schedule[d + 1][k])

PersonalShown == view_option = "personal"
\* the row of the pivot ("Week i") that holds personal day offset o
RowOf(o) == CHOOSE i \in 1 .. Len(pivot_index) : pivot_index[i] = df_nurse[o].WeekStart

\* C8 as stated: offset o is placed in week row o // 7 ("Week (o // 7) + 1")
\* for every start date, the pivot has exactly 12 week rows, the columns are
\* Monday..Sunday.
C8_WeekByOffset ==
    PersonalShown =>
        /\ Len(pivot) = 12
        /\ \A o \in Days :
              /\ RowOf(o) = (o \div 7) + 1
              /\ pivot[RowOf(o)][df_nurse[o].Weekday] = df_nurse[o].Shift
        /\ \A i \in 1 .. Len(pivot) : DOMAIN pivot[i] = 0 .. 6

\* C8 amended: the rows are calendar weeks (Monday..Sunday): with w the
\* weekday of the start date (Monday = 0), offset o is placed in week row
\* (o + w) // 7; there are 12 rows for a Monday start and 13 otherwise.
C8_WeekByCalendarWeek ==
    PersonalShown =>
        LET w == weekday(start_date)
        IN  /\ Len(pivot) = IF w = 0 THEN 12 ELSE 13
            /\ \A o \in Days :
                  /\ RowOf(o) = ((o + w) \div 7) + 1
                  /\ pivot[RowOf(o)][df_nurse[o].Weekday] = df_nurse[o].Shift
            /\ \A i \in 1 .. Len(pivot) : DOMAIN pivot[i] = 0 .. 6

C8_Witness ==
    /\ PersonalShown
    /\ weekday(start_date) # 0
    /\ Len(pivot) = 13
    /\ df_nurse[0].Date > start_date

\* C9: before any exchange, for every nurse k and every date that appears in
\* the overall grid (start date + d) and in k's personal view, the personal
\* view shows for k the shift the overall grid shows for k on that date.
C9_ViewsAgree ==
    PersonalShown =>
        LET k == (df_nurse[0].Date - start_date) \div days_per_week
        IN  \A o \in Days, d \in Days :
                df_nurse[o].Date = start_date + d =>
                    df_nurse[o].Shift = overall_schedule[d][k]

\* C10: the windows of the emitted no-4-in-a-row constraints, over all nurses
\* and personal windows, contain every cyclic window {m, m+1, m+2, m+3 mod 84},
\* so a solved master pattern has no 4 consecutive worked days, also across
\* the wrap from index 83 to index 0.
CyclicWindow(m) == {(m + i) % horizon : i \in 0 .. 3}
C10_CyclicClosure ==
    /\ \A m \in Days : CyclicWindow(m) \in {{w[i] : i \in 1 .. 4} : w \in ConsecutiveWindows}
    /\ master_schedule # None =>
          \A m \in Days : \E x \in CyclicWindow(m) : ~IsWorked(master_schedule[x])

\* a solved pattern with three worked days in a row across the wrap
C10_Witness ==
    /\ master_schedule # None
    /\ IsWorked(master_schedule[horizon - 2])
    /\ IsWorked(master_schedule[horizon - 1])
    /\ IsWorked(master_schedule[0])

=============================================================================
